---- MODULE Spec2Model ----
(***************************************************************************)
(* A model of crates/notion-core/src/distro/yarn.rs: the cache validator   *)
(* distro_is_valid, the three provisioning constructors of YarnDistro      *)
(* (public, remote, local) and the install step YarnDistro::fetch.         *)
(*                                                                         *)
(* The filesystem is the cache directory (one archive file per version),   *)
(* the staging root (one extracted subtree per version) and the final      *)
(* per-version image directories.  Every call is executed by a process in  *)
(* steps, one step per call the source makes on a collaborator, so that    *)
(* calls of different processes interleave where the source takes no lock. *)
(*                                                                         *)
(* The collaborators that live outside this source file (Tarball::load,    *)
(* Tarball::fetch, Archive::unpack, the path module) are modelled from the *)
(* specification.  As the specification states, the top-level directory of *)
(* the archive of a version is the one yarn_archive_root_dir_name gives    *)
(* for that version.                                                       *)
(***************************************************************************)
EXTENDS Integers, Sequences, FiniteSets, TLC

VARIABLES
    inventory,  \* the YarnCollection: the set of versions recorded as installed
    cacheDir,   \* TRUE iff the inventory (cache) directory exists
    cache,      \* cache file name -> what is at that path
    staging,    \* archive root dir name -> the subtree under the image root
    final,      \* version string -> the image directory of that version
    fresh,      \* cache file names written by a successful fetch, untouched since
    pc,         \* process -> its position in the call it is executing
    op,         \* process -> the entry point of its call
    ver,        \* process -> the version of its call
    arg,        \* process -> the url (remote) or the file handle (local) of its call
    distro,     \* process -> the YarnDistro it holds (NoDistro if none)
    result,     \* process -> the value its call returned (NoResult while running)
    log,        \* process -> the collaborator calls its call has made, in order
    ent,        \* process -> the number of archive entries its unpack has written
    final0,     \* process -> the image directory of ver as it was when fetch began
    calls,      \* the number of calls started so far
    bar,        \* process -> the progress bar of its fetch call (NoBar if none)
    promoted,   \* version -> the number of renames into its image directory
    sized       \* the answers Archive::uncompressed_size gives: is the size known

vars == <<inventory, cacheDir, cache, staging, final, fresh, pc, op, ver, arg,
          distro, result, log, ent, final0, calls, bar, promoted, sized>>

fsvars == <<cacheDir, cache, staging, final>>

(***************************************************************************)
(* Bounds.                                                                 *)
(***************************************************************************)
NEntries == 2       \* entries in the archive of a version
MaxCalls == 4       \* calls started in one behaviour

Versions == {1, 2}
Procs == {1, 2}
Entries == 1..NEntries

(***************************************************************************)
(* Names: the path module and Version::to_string.                          *)
(***************************************************************************)
to_string(v) == IF v = 1 THEN "1.9.4" ELSE "1.10.1"

yarn_distro_file_name(vs) == <<"yarn-v", vs, ".tar.gz">>

yarn_archive_root_dir_name(vs) == <<"yarn-v", vs>>

yarn_image_dir(vs) == <<"yarn", vs>>

public_yarn_server_root == "https://github.com/notion-cli/yarn-releases/raw/master/dist"

PublicUrl(v) == <<public_yarn_server_root, yarn_distro_file_name(to_string(v))>>

\* The urls a caller of remote passes.
Urls == {PublicUrl(v) : v \in Versions}

CacheNames == {yarn_distro_file_name(to_string(v)) : v \in Versions}

RootNames == {yarn_archive_root_dir_name(to_string(v)) : v \in Versions}

ImageNames == {yarn_image_dir(to_string(v)) : v \in Versions}

(***************************************************************************)
(* What a path of the cache directory holds: nothing, a directory, or a    *)
(* regular file that is zero bytes long, a truncated archive, a complete   *)
(* archive, or a complete archive the process may not read.                *)
(***************************************************************************)
Contents == {"absent", "dir", "empty", "trunc", "good", "locked"}

is_file(c) == c \in {"empty", "trunc", "good", "locked"}

\* std::fs::File::open: a missing path and an unreadable file do not open.
File_open(c) == c \notin {"absent", "locked"}

\* Tarball::load: Ok iff the bytes behind the handle parse as an archive.
Tarball_load(c) == c = "good"

(***************************************************************************)
(* A directory tree: Absent, or for each entry of the archive whether it   *)
(* is missing, partly written or complete.                                 *)
(***************************************************************************)
Absent == <<>>

EmptyDir == [e \in Entries |-> "none"]

Trees == {Absent} \cup [Entries -> {"none", "part", "full"}]

IsFull(t) == t # Absent /\ \A e \in Entries : t[e] = "full"

IsEmpty(t) == t # Absent /\ \A e \in Entries : t[e] = "none"

Put(t, e, s) == [(IF t = Absent THEN EmptyDir ELSE t) EXCEPT ![e] = s]

(***************************************************************************)
(* Values of a call.                                                       *)
(***************************************************************************)
NoDistro == [version |-> 0, archive |-> "none"]

YarnDistro(v, a) == [version |-> v, archive |-> a]

NoResult == <<"none">>

OkDistro(v, a) == <<"Ok", YarnDistro(v, a)>>

DownloadError(vs) == <<"DownloadError", vs>>

UnknownError == <<"UnknownError">>

Already(v) == <<"Already", v>>

Now(v) == <<"Now", v>>

NoArg == <<"none">>

FileOfCache(n) == <<"cache", n>>

FileOf(c) == <<"file", c>>

\* The bytes a file handle reads: those of the cache file it was opened on
\* (as they are now), or those of the caller's own file.
Bytes(f) == IF f[1] = "cache" THEN cache[f[2]] ELSE f[2]

distro_file(p) == yarn_distro_file_name(to_string(ver[p]))

(***************************************************************************)
(* The sizes of an archive and the progress bar of fetch.  An entry is     *)
(* read in one chunk; the callback unpack is given is called once for each *)
(* chunk with the number of bytes of that chunk.                           *)
(***************************************************************************)
entry_size(e) == e + 1

RECURSIVE bytes_upto(_)
bytes_upto(e) == IF e = 0 THEN 0 ELSE entry_size(e) + bytes_upto(e - 1)

\* Archive::uncompressed_size, when it is known.
uncompressed_size == bytes_upto(NEntries)

\* Archive::compressed_size: every entry is compressed to one byte.
compressed_size == NEntries

\* No bar: one of total zero.
NoBar == [known |-> FALSE, total |-> 0, sum |-> 0]

\* The bar given the compressed size as its total whatever is known.
progress_bar_compressed(known) ==
    [known |-> known, total |-> compressed_size, sum |-> 0]

\* Lines 102-108: the total of the bar is
\* archive.uncompressed_size().unwrap_or(archive.compressed_size()).
progress_bar(known) ==
    [known |-> known,
     total |-> IF known THEN uncompressed_size ELSE compressed_size,
     sum |-> 0]

\* Line 112: bar.inc(read as u64).
inc(b, read) == [b EXCEPT !.sum = @ + read]

\* distro_is_valid with the Err arm of the match on Tarball::load returning
\* true.
distro_is_valid_err_true(c) ==
    IF is_file(c)
    THEN IF File_open(c)
         THEN IF Tarball_load(c) THEN TRUE ELSE TRUE
         ELSE FALSE
    ELSE FALSE

(***************************************************************************)
(* distro_is_valid                                                         *)
(***************************************************************************)
distro_is_valid(c) ==
    IF is_file(c)
    THEN IF File_open(c)
         THEN IF Tarball_load(c) THEN TRUE ELSE FALSE
         ELSE FALSE
    ELSE FALSE

(***************************************************************************)
(* The initial state: no call is running and nothing is installed or       *)
(* staged; the cache directory holds whatever earlier runs left in it.     *)
(***************************************************************************)
Boot(running, recorded, left, sizes) ==
    /\ inventory \in recorded
    /\ cache \in [CacheNames -> left]
    /\ cacheDir \in BOOLEAN
    /\ (\E n \in CacheNames : cache[n] # "absent") => cacheDir
    /\ staging = [r \in RootNames |-> Absent]
    /\ final = [i \in ImageNames |-> Absent]
    /\ fresh = {}
    /\ pc = [p \in Procs |-> IF p \in running THEN "idle" ELSE "off"]
    /\ op = [p \in Procs |-> "none"]
    /\ ver = [p \in Procs |-> 0]
    /\ arg = [p \in Procs |-> NoArg]
    /\ distro = [p \in Procs |-> NoDistro]
    /\ result = [p \in Procs |-> NoResult]
    /\ log = [p \in Procs |-> <<>>]
    /\ ent = [p \in Procs |-> 0]
    /\ final0 = [p \in Procs |-> Absent]
    /\ calls = 0
    /\ bar = [p \in Procs |-> NoBar]
    /\ promoted = [v \in Versions |-> 0]
    /\ sized = sizes

\* Two processes on a machine whose cache directory holds no file yet.
Init == Boot(Procs, {{}}, {"absent"}, {TRUE})

\* The call of p ends with value r.
Return(p, r) ==
    /\ pc' = [pc EXCEPT ![p] = "done"]
    /\ result' = [result EXCEPT ![p] = r]

Logged(p, e) == log' = [log EXCEPT ![p] = Append(@, e)]

Logged2(p, e, f) == log' = [log EXCEPT ![p] = Append(Append(@, e), f)]

Start(p, o, v, a) ==
    /\ pc[p] = "idle"
    /\ calls < MaxCalls
    /\ calls' = calls + 1
    /\ op' = [op EXCEPT ![p] = o]
    /\ ver' = [ver EXCEPT ![p] = v]
    /\ arg' = [arg EXCEPT ![p] = a]

(***************************************************************************)
(* remote: lines 66-67, then one step for each of distro_is_valid,         *)
(* File::open, ensure_containing_dir_exists and Tarball::fetch.            *)
(***************************************************************************)
\* Lines 66-67: the cache path is computed; yarn_inventory_dir may fail.
RemoteBegin(p, o, v, url) ==
    /\ Start(p, o, v, url)
    /\ \/ /\ pc' = [pc EXCEPT ![p] = "remote_check"]
          /\ UNCHANGED result
       \/ Return(p, UnknownError)
    /\ UNCHANGED <<inventory, fsvars, fresh, distro, log, ent, final0>>
    /\ UNCHANGED <<bar, promoted, sized>>

remote(p) ==
    \E v \in Versions, url \in Urls : RemoteBegin(p, "remote", v, url)

\* public with the url built from the archive's root directory name in place
\* of the distro file name of line 59.
public_root_dir_url(p) ==
    \E v \in Versions :
        RemoteBegin(p, "public", v,
                    <<public_yarn_server_root, yarn_archive_root_dir_name(to_string(v))>>)

\* public: the url is that of the public server for the version's file name.
public(p) ==
    \E v \in Versions : RemoteBegin(p, "public", v, PublicUrl(v))

\* Line 69 without the return of line 70: a valid cache file is fetched again.
RemoteCheck_falls_through(p) ==
    /\ pc[p] = "remote_check"
    /\ pc' = [pc EXCEPT ![p] = "remote_mkdir"]
    /\ IF distro_is_valid(cache[distro_file(p)])
       THEN Logged(p, <<"valid">>)
       ELSE Logged(p, <<"invalid">>)
    /\ UNCHANGED <<inventory, fsvars, fresh, op, ver, arg, distro, result, ent,
                   final0, calls>>
    /\ UNCHANGED <<bar, promoted, sized>>

\* Line 69 without the validity check: every call fetches.
RemoteCheck_skipped(p) ==
    /\ pc[p] = "remote_check"
    /\ pc' = [pc EXCEPT ![p] = "remote_mkdir"]
    /\ Logged(p, <<"invalid">>)
    /\ UNCHANGED <<inventory, fsvars, fresh, op, ver, arg, distro, result, ent,
                   final0, calls>>
    /\ UNCHANGED <<bar, promoted, sized>>

\* Line 69.
RemoteCheck(p) ==
    /\ pc[p] = "remote_check"
    /\ IF distro_is_valid(cache[distro_file(p)])
       THEN /\ pc' = [pc EXCEPT ![p] = "remote_open"]
            /\ Logged(p, <<"valid">>)
       ELSE /\ pc' = [pc EXCEPT ![p] = "remote_mkdir"]
            /\ Logged(p, <<"invalid">>)
    /\ UNCHANGED <<inventory, fsvars, fresh, op, ver, arg, distro, result, ent,
                   final0, calls>>
    /\ UNCHANGED <<bar, promoted, sized>>

\* Line 70: File::open(distro_file).unknown()?, then local.
RemoteOpen(p) ==
    /\ pc[p] = "remote_open"
    /\ Logged(p, <<"open", distro_file(p)>>)
    /\ IF File_open(cache[distro_file(p)])
       THEN /\ pc' = [pc EXCEPT ![p] = "local_load"]
            /\ arg' = [arg EXCEPT ![p] = FileOfCache(distro_file(p))]
            /\ UNCHANGED result
       ELSE /\ Return(p, UnknownError)
            /\ UNCHANGED arg
    /\ UNCHANGED <<inventory, fsvars, fresh, op, ver, distro, ent, final0, calls>>
    /\ UNCHANGED <<bar, promoted, sized>>

\* Line 73 with the failure wrapped as a DownloadError.
RemoteMkdir_download_error(p) ==
    /\ pc[p] = "remote_mkdir"
    /\ Logged(p, <<"mkdir">>)
    /\ \/ /\ cacheDir' = TRUE
          /\ pc' = [pc EXCEPT ![p] = "remote_fetch"]
          /\ UNCHANGED result
       \/ /\ ~cacheDir
          /\ Return(p, DownloadError(to_string(ver[p])))
          /\ UNCHANGED cacheDir
    /\ UNCHANGED <<inventory, cache, staging, final, fresh, op, ver, arg, distro,
                   ent, final0, calls>>
    /\ UNCHANGED <<bar, promoted, sized>>

\* Line 73: ensure_containing_dir_exists(&distro_file)?
RemoteMkdir(p) ==
    /\ pc[p] = "remote_mkdir"
    /\ Logged(p, <<"mkdir">>)
    /\ \/ /\ cacheDir' = TRUE
          /\ pc' = [pc EXCEPT ![p] = "remote_fetch"]
          /\ UNCHANGED result
       \/ /\ ~cacheDir
          /\ Return(p, UnknownError)
          /\ UNCHANGED cacheDir
    /\ UNCHANGED <<inventory, cache, staging, final, fresh, op, ver, arg, distro,
                   ent, final0, calls>>
    /\ UNCHANGED <<bar, promoted, sized>>

\* Lines 75-76 with one more attempt after a failed request.
RemoteFetch_retries(p) ==
    /\ pc[p] = "remote_fetch"
    /\ \/ /\ cache[distro_file(p)] # "dir"
          /\ cache' = [cache EXCEPT ![distro_file(p)] = "empty"]
          /\ fresh' = fresh \ {distro_file(p)}
          /\ Logged(p, <<"fetch", arg[p], distro_file(p)>>)
          /\ pc' = [pc EXCEPT ![p] = "remote_stream"]
          /\ UNCHANGED result
       \/ /\ Logged2(p, <<"fetch", arg[p], distro_file(p)>>, <<"fetch_err">>)
          /\ IF Len(log[p]) < 4
             THEN UNCHANGED <<pc, result>>
             ELSE Return(p, DownloadError(to_string(ver[p])))
          /\ UNCHANGED <<cache, fresh>>
    /\ UNCHANGED <<inventory, cacheDir, staging, final, op, ver, arg, distro, ent,
                   final0, calls>>
    /\ UNCHANGED <<bar, promoted, sized>>

\* Lines 75-76, Tarball::fetch(url, &distro_file): the request is sent and
\* the cache file is created (truncated if it exists); the request or the
\* creation may fail.
RemoteFetch(p) ==
    /\ pc[p] = "remote_fetch"
    /\ \/ /\ cache[distro_file(p)] # "dir"
          /\ cache' = [cache EXCEPT ![distro_file(p)] = "empty"]
          /\ fresh' = fresh \ {distro_file(p)}
          /\ Logged(p, <<"fetch", arg[p], distro_file(p)>>)
          /\ pc' = [pc EXCEPT ![p] = "remote_stream"]
          /\ UNCHANGED result
       \/ /\ Logged2(p, <<"fetch", arg[p], distro_file(p)>>, <<"fetch_err">>)
          /\ Return(p, DownloadError(to_string(ver[p])))
          /\ UNCHANGED <<cache, fresh>>
    /\ UNCHANGED <<inventory, cacheDir, staging, final, op, ver, arg, distro, ent,
                   final0, calls>>
    /\ UNCHANGED <<bar, promoted, sized>>

\* Tarball::fetch, the body of the response: it is written to the cache file
\* whole and parsed, or the transfer fails and leaves a zero-byte or a
\* truncated file.
RemoteStream(p) ==
    /\ pc[p] = "remote_stream"
    /\ \/ /\ cache' = [cache EXCEPT ![distro_file(p)] = "good"]
          /\ fresh' = fresh \cup {distro_file(p)}
          /\ Return(p, OkDistro(ver[p], "good"))
          /\ UNCHANGED log
       \/ /\ \E c \in {"empty", "trunc"} :
                cache' = [cache EXCEPT ![distro_file(p)] = c]
          /\ fresh' = fresh \ {distro_file(p)}
          /\ Logged(p, <<"fetch_err">>)
          /\ Return(p, DownloadError(to_string(ver[p])))
    /\ UNCHANGED <<inventory, cacheDir, staging, final, op, ver, arg, distro, ent,
                   final0, calls>>
    /\ UNCHANGED <<bar, promoted, sized>>

(***************************************************************************)
(* local                                                                   *)
(***************************************************************************)
\* The caller's file: a file of its own, or a cache file it has opened.
LocalFiles ==
    {FileOf(c) : c \in {"empty", "trunc", "good"}}
        \cup {FileOfCache(n) : n \in {m \in CacheNames : File_open(cache[m])}}

\* local keeping a copy of the caller's file at the cache path of the version.
local_stores(p) ==
    \E v \in Versions, f \in LocalFiles :
        /\ Start(p, "local", v, f)
        /\ pc' = [pc EXCEPT ![p] = "local_load"]
        /\ cacheDir' = TRUE
        /\ cache' = [cache EXCEPT ![yarn_distro_file_name(to_string(v))] = Bytes(f)]
        /\ UNCHANGED <<inventory, staging, final, fresh, distro, result, log, ent,
                       final0>>
        /\ UNCHANGED <<bar, promoted, sized>>

local(p) ==
    \E v \in Versions, f \in LocalFiles :
        /\ Start(p, "local", v, f)
        /\ pc' = [pc EXCEPT ![p] = "local_load"]
        /\ UNCHANGED <<inventory, fsvars, fresh, distro, result, log, ent, final0>>
        /\ UNCHANGED <<bar, promoted, sized>>

\* Lines 69-70 and 83-86 with a fallback: when the cache file that passed the
\* check does not load, remote goes on to fetch it again.
LocalLoad_falls_back(p) ==
    /\ pc[p] = "local_load"
    /\ Logged(p, <<"load", arg[p]>>)
    /\ IF Tarball_load(Bytes(arg[p]))
       THEN Return(p, OkDistro(ver[p], Bytes(arg[p])))
       ELSE IF op[p] = "local"
            THEN Return(p, UnknownError)
            ELSE /\ pc' = [pc EXCEPT ![p] = "remote_mkdir"]
                 /\ UNCHANGED result
    /\ UNCHANGED <<inventory, fsvars, fresh, op, ver, arg, distro, ent, final0,
                   calls>>
    /\ UNCHANGED <<bar, promoted, sized>>

\* Lines 83-86 with the result of Tarball::load not looked at.
LocalLoad_unchecked(p) ==
    /\ pc[p] = "local_load"
    /\ Logged(p, <<"load", arg[p]>>)
    /\ Return(p, OkDistro(ver[p], Bytes(arg[p])))
    /\ UNCHANGED <<inventory, fsvars, fresh, op, ver, arg, distro, ent, final0,
                   calls>>
    /\ UNCHANGED <<bar, promoted, sized>>

\* Lines 83-86: Tarball::load(file).unknown()?
LocalLoad(p) ==
    /\ pc[p] = "local_load"
    /\ Logged(p, <<"load", arg[p]>>)
    /\ IF Tarball_load(Bytes(arg[p]))
       THEN Return(p, OkDistro(ver[p], Bytes(arg[p])))
       ELSE Return(p, UnknownError)
    /\ UNCHANGED <<inventory, fsvars, fresh, op, ver, arg, distro, ent, final0,
                   calls>>
    /\ UNCHANGED <<bar, promoted, sized>>

(***************************************************************************)
(* fetch, the install step: the inventory gate, then one step for each     *)
(* entry Archive::unpack creates and fills, then the rename.               *)
(***************************************************************************)
image(p) == yarn_image_dir(to_string(ver[p]))

root(p) == yarn_archive_root_dir_name(to_string(ver[p]))

\* fetch with the gate of lines 97-99 looking at the image directory as well:
\* a version whose image directory exists counts as installed.
fetch_gates_on_dir(p) ==
    /\ distro[p] # NoDistro
    /\ Start(p, "fetch", distro[p].version, <<"archive", distro[p].archive>>)
    /\ distro' = [distro EXCEPT ![p] = NoDistro]
    /\ final0' = [final0 EXCEPT ![p] = final[yarn_image_dir(to_string(distro[p].version))]]
    /\ IF \/ distro[p].version \in inventory
          \/ final[yarn_image_dir(to_string(distro[p].version))] # Absent
       THEN /\ Return(p, Already(distro[p].version))
            /\ UNCHANGED bar
       ELSE \/ /\ pc' = [pc EXCEPT ![p] = "unpack"]
               /\ \E known \in sized : bar' = [bar EXCEPT ![p] = progress_bar(known)]
               /\ UNCHANGED result
            \/ /\ Return(p, UnknownError)
               /\ UNCHANGED bar
    /\ UNCHANGED <<inventory, fsvars, fresh, log, ent, promoted, sized>>

\* fetch without the inventory gate of lines 97-99.
fetch_ungated(p) ==
    /\ distro[p] # NoDistro
    /\ Start(p, "fetch", distro[p].version, <<"archive", distro[p].archive>>)
    /\ distro' = [distro EXCEPT ![p] = NoDistro]
    /\ final0' = [final0 EXCEPT ![p] = final[yarn_image_dir(to_string(distro[p].version))]]
    /\ \/ /\ pc' = [pc EXCEPT ![p] = "unpack"]
          /\ \E known \in sized : bar' = [bar EXCEPT ![p] = progress_bar(known)]
          /\ UNCHANGED result
       \/ /\ Return(p, UnknownError)
          /\ UNCHANGED bar
    /\ UNCHANGED <<inventory, fsvars, fresh, log, ent, promoted, sized>>

\* Lines 97-101: collection.contains, then yarn_image_root_dir()?.  The
\* distribution is consumed by the call.
fetch(p) ==
    /\ distro[p] # NoDistro
    /\ Start(p, "fetch", distro[p].version, <<"archive", distro[p].archive>>)
    /\ distro' = [distro EXCEPT ![p] = NoDistro]
    /\ final0' = [final0 EXCEPT ![p] = final[yarn_image_dir(to_string(distro[p].version))]]
    /\ IF distro[p].version \in inventory
       THEN /\ Return(p, Already(distro[p].version))
            /\ UNCHANGED bar
       ELSE \/ /\ pc' = [pc EXCEPT ![p] = "unpack"]
               /\ \E known \in sized : bar' = [bar EXCEPT ![p] = progress_bar(known)]
               /\ UNCHANGED result
            \/ /\ Return(p, UnknownError)
               /\ UNCHANGED bar
    /\ UNCHANGED <<inventory, fsvars, fresh, log, ent, promoted, sized>>

\* unpack behind a lock on the staging subtree of the version: an entry is
\* written only while no other process is installing the version.
Unpack_locked(p) ==
    /\ pc[p] = "unpack"
    /\ \A q \in Procs \ {p} :
           ~(/\ op[q] = "fetch"
             /\ ver[q] = ver[p]
             /\ pc[q] \in {"unpack", "unpack_write", "unpack_write_moved", "rename"})
    /\ Tarball_load(arg[p][2])
    /\ ent[p] < NEntries
    /\ staging' = [staging EXCEPT ![root(p)] = Put(@, ent[p] + 1, "part")]
    /\ Logged(p, <<"unpack", root(p), ent[p] + 1>>)
    /\ pc' = [pc EXCEPT ![p] = "unpack_write"]
    /\ UNCHANGED <<inventory, cacheDir, cache, final, fresh, op, ver, arg, distro,
                   result, ent, final0, calls>>
    /\ UNCHANGED <<bar, promoted, sized>>

\* unpack given the image directory of the version as its destination.
Unpack_into_image(p) ==
    /\ pc[p] = "unpack"
    /\ Tarball_load(arg[p][2])
    /\ ent[p] < NEntries
    /\ final' = [final EXCEPT ![image(p)] = Put(@, ent[p] + 1, "part")]
    /\ Logged(p, <<"unpack", image(p), ent[p] + 1>>)
    /\ pc' = [pc EXCEPT ![p] = "unpack_write"]
    /\ UNCHANGED <<inventory, cacheDir, cache, staging, fresh, op, ver, arg, distro,
                   result, ent, final0, calls>>
    /\ UNCHANGED <<bar, promoted, sized>>

\* Archive::unpack, the next entry: its file is created under the staging
\* root (the directories above it too), truncated if it is there already.
Unpack(p) ==
    /\ pc[p] = "unpack"
    /\ Tarball_load(arg[p][2])
    /\ ent[p] < NEntries
    /\ staging' = [staging EXCEPT ![root(p)] = Put(@, ent[p] + 1, "part")]
    /\ Logged(p, <<"unpack", root(p), ent[p] + 1>>)
    /\ pc' = [pc EXCEPT ![p] = "unpack_write"]
    /\ UNCHANGED <<inventory, cacheDir, cache, final, fresh, op, ver, arg, distro,
                   result, ent, final0, calls>>
    /\ UNCHANGED <<bar, promoted, sized>>

\* Archive::unpack, the bytes of the entry: they go to the file the process
\* has open, which is under the image directory if a rename has moved the
\* subtree there since the file was created.
UnpackWrite(p) ==
    /\ pc[p] \in {"unpack_write", "unpack_write_moved"}
    /\ IF pc[p] = "unpack_write"
       THEN /\ staging' = [staging EXCEPT ![root(p)] = Put(@, ent[p] + 1, "full")]
            /\ UNCHANGED final
       ELSE /\ final' = [final EXCEPT ![image(p)] = Put(@, ent[p] + 1, "full")]
            /\ UNCHANGED staging
    /\ ent' = [ent EXCEPT ![p] = @ + 1]
    /\ bar' = [bar EXCEPT ![p] = inc(@, entry_size(ent[p] + 1))]
    /\ pc' = [pc EXCEPT ![p] = IF ent[p] + 1 = NEntries THEN "rename" ELSE "unpack"]
    /\ UNCHANGED <<inventory, cacheDir, cache, fresh, op, ver, arg, distro, result,
                   log, final0, calls>>
    /\ UNCHANGED <<promoted, sized>>

\* Lines 110-114 with a cleanup on the error path: what unpack has written is
\* removed before the error is returned.
UnpackFail_cleans(p) ==
    /\ pc[p] \in {"unpack", "unpack_write", "unpack_write_moved"}
    /\ Logged(p, <<"unpack_err">>)
    /\ Return(p, UnknownError)
    /\ staging' = [staging EXCEPT ![root(p)] = Absent]
    /\ UNCHANGED <<inventory, cacheDir, cache, final, fresh, op, ver, arg, distro,
                   ent, final0, calls>>
    /\ UNCHANGED <<bar, promoted, sized>>

\* Lines 110-114 with the entry tried again when its write fails, as often
\* as it fails.
UnpackFail_retries(p) ==
    /\ pc[p] \in {"unpack_write", "unpack_write_moved"}
    /\ pc' = [pc EXCEPT ![p] = "unpack"]
    /\ log' = [log EXCEPT ![p] = SubSeq(@, 1, Len(@) - 1)]
    /\ UNCHANGED <<inventory, fsvars, fresh, op, ver, arg, distro, result, ent,
                   final0, calls>>
    /\ UNCHANGED <<bar, promoted, sized>>

\* The error of unpack dropped (no `?` on line 114): the call goes on to the
\* rename.
UnpackFail_ignored(p) ==
    /\ pc[p] \in {"unpack", "unpack_write", "unpack_write_moved"}
    /\ Logged(p, <<"unpack_err">>)
    /\ pc' = [pc EXCEPT ![p] = "rename"]
    /\ UNCHANGED <<inventory, fsvars, fresh, op, ver, arg, distro, result, ent,
                   final0, calls>>
    /\ UNCHANGED <<bar, promoted, sized>>

\* Lines 110-114: unpack returns an error (a corrupt archive, a failed read
\* or write); what it has written so far stays.
UnpackFail(p) ==
    /\ pc[p] \in {"unpack", "unpack_write", "unpack_write_moved"}
    /\ Logged(p, <<"unpack_err">>)
    /\ Return(p, UnknownError)
    /\ UNCHANGED <<inventory, fsvars, fresh, op, ver, arg, distro, ent, final0,
                   calls>>
    /\ UNCHANGED <<bar, promoted, sized>>

\* std::fs::rename of a directory: the source must exist and the target
\* must be missing or an empty directory.
rename_ok(from, to) == from # Absent /\ (to = Absent \/ IsEmpty(to))

\* Lines 116-123 with fetch recording the version itself once the rename has
\* succeeded.
Rename_records(p) ==
    /\ pc[p] = "rename"
    /\ \/ /\ Return(p, UnknownError)
          /\ UNCHANGED <<inventory, staging, final, log, promoted>>
       \/ /\ Logged(p, <<"rename", root(p), image(p)>>)
          /\ \/ /\ rename_ok(staging[root(p)], final[image(p)])
                /\ final' = [final EXCEPT ![image(p)] = staging[root(p)]]
                /\ promoted' = [promoted EXCEPT ![ver[p]] = @ + 1]
                /\ staging' = [staging EXCEPT ![root(p)] = Absent]
                /\ inventory' = inventory \cup {ver[p]}
                /\ result' = [result EXCEPT ![p] = Now(ver[p])]
                /\ pc' = [q \in Procs |->
                            IF q = p THEN "done"
                            ELSE IF pc[q] = "unpack_write" /\ ver[q] = ver[p]
                                 THEN "unpack_write_moved" ELSE pc[q]]
             \/ /\ Return(p, UnknownError)
                /\ UNCHANGED <<inventory, staging, final, promoted>>
    /\ UNCHANGED <<cacheDir, cache, fresh, op, ver, arg, distro, ent, final0, calls>>
    /\ UNCHANGED <<bar, sized>>

\* Lines 116-123 with the extraction started again when the rename fails.
Rename_reextracts(p) ==
    /\ pc[p] = "rename"
    /\ Logged(p, <<"rename", root(p), image(p)>>)
    /\ \/ /\ rename_ok(staging[root(p)], final[image(p)])
          /\ final' = [final EXCEPT ![image(p)] = staging[root(p)]]
          /\ promoted' = [promoted EXCEPT ![ver[p]] = @ + 1]
          /\ staging' = [staging EXCEPT ![root(p)] = Absent]
          /\ result' = [result EXCEPT ![p] = Now(ver[p])]
          /\ pc' = [q \in Procs |->
                      IF q = p THEN "done"
                      ELSE IF pc[q] = "unpack_write" /\ ver[q] = ver[p]
                           THEN "unpack_write_moved" ELSE pc[q]]
          /\ UNCHANGED <<ent, bar>>
       \/ /\ pc' = [pc EXCEPT ![p] = "unpack"]
          /\ ent' = [ent EXCEPT ![p] = 0]
          /\ bar' = [bar EXCEPT ![p] = [@ EXCEPT !.sum = 0]]
          /\ UNCHANGED <<staging, final, promoted, result>>
    /\ UNCHANGED <<inventory, cacheDir, cache, fresh, op, ver, arg, distro, final0,
                   calls, sized>>

\* A copy in place of the rename: the staging subtree stays.
Rename_copies(p) ==
    /\ pc[p] = "rename"
    /\ \/ /\ Return(p, UnknownError)
          /\ UNCHANGED <<staging, final, log, promoted>>
       \/ /\ Logged(p, <<"rename", root(p), image(p)>>)
          /\ \/ /\ rename_ok(staging[root(p)], final[image(p)])
                /\ final' = [final EXCEPT ![image(p)] = staging[root(p)]]
                /\ promoted' = [promoted EXCEPT ![ver[p]] = @ + 1]
                /\ UNCHANGED staging
                /\ Return(p, Now(ver[p]))
             \/ /\ Return(p, UnknownError)
                /\ UNCHANGED <<staging, final, promoted>>
    /\ UNCHANGED <<inventory, cacheDir, cache, fresh, op, ver, arg, distro, ent,
                   final0, calls>>
    /\ UNCHANGED <<bar, sized>>

\* Lines 116-123: yarn_image_dir()? and rename(..).unknown()?; a process
\* that has a file of the subtree open keeps it open in the renamed tree.
Rename(p) ==
    /\ pc[p] = "rename"
    /\ \/ /\ Return(p, UnknownError)
          /\ UNCHANGED <<staging, final, log, promoted>>
       \/ /\ Logged(p, <<"rename", root(p), image(p)>>)
          /\ \/ /\ rename_ok(staging[root(p)], final[image(p)])
                /\ final' = [final EXCEPT ![image(p)] = staging[root(p)]]
                /\ promoted' = [promoted EXCEPT ![ver[p]] = @ + 1]
                /\ staging' = [staging EXCEPT ![root(p)] = Absent]
                /\ result' = [result EXCEPT ![p] = Now(ver[p])]
                /\ pc' = [q \in Procs |->
                            IF q = p THEN "done"
                            ELSE IF pc[q] = "unpack_write" /\ ver[q] = ver[p]
                                 THEN "unpack_write_moved" ELSE pc[q]]
             \/ /\ Return(p, UnknownError)
                /\ UNCHANGED <<staging, final, promoted>>
    /\ UNCHANGED <<inventory, cacheDir, cache, fresh, op, ver, arg, distro, ent,
                   final0, calls>>
    /\ UNCHANGED <<bar, sized>>

(***************************************************************************)
(* The caller.                                                             *)
(***************************************************************************)
Forget(p) ==
    /\ pc' = [pc EXCEPT ![p] = "idle"]
    /\ op' = [op EXCEPT ![p] = "none"]
    /\ ver' = [ver EXCEPT ![p] = 0]
    /\ arg' = [arg EXCEPT ![p] = NoArg]
    /\ result' = [result EXCEPT ![p] = NoResult]
    /\ log' = [log EXCEPT ![p] = <<>>]
    /\ ent' = [ent EXCEPT ![p] = 0]
    /\ final0' = [final0 EXCEPT ![p] = Absent]
    /\ bar' = [bar EXCEPT ![p] = NoBar]

\* The caller takes the value of the call; a distribution it keeps.
Take(p) ==
    /\ pc[p] = "done"
    /\ Forget(p)
    /\ distro' = [distro EXCEPT ![p] = IF result[p][1] = "Ok" THEN result[p][2] ELSE @]
    /\ UNCHANGED <<inventory, fsvars, fresh, calls>>
    /\ UNCHANGED <<promoted, sized>>

\* The YarnCollection updates its state after fetch returned Fetched::Now.
Record(p) ==
    /\ pc[p] = "done"
    /\ result[p][1] = "Now"
    /\ inventory' = inventory \cup {result[p][2]}
    /\ Forget(p)
    /\ UNCHANGED <<fsvars, fresh, distro, calls>>
    /\ UNCHANGED <<promoted, sized>>

Next ==
    \E p \in Procs :
        \/ public(p)
        \/ remote(p)
        \/ RemoteCheck(p)
        \/ RemoteOpen(p)
        \/ RemoteMkdir(p)
        \/ RemoteFetch(p)
        \/ RemoteStream(p)
        \/ local(p)
        \/ LocalLoad(p)
        \/ fetch(p)
        \/ Unpack(p)
        \/ UnpackWrite(p)
        \/ UnpackFail(p)
        \/ Rename(p)
        \/ Take(p)
        \/ Record(p)

\* Calls of the processes interleave.
Spec == Init /\ [][Next]_vars

\* One process: every call runs alone.
InitSeq == Boot({1}, SUBSET Versions, Contents, BOOLEAN)

SpecSeq == InitSeq /\ [][Next]_vars

PcValues ==
    {"idle", "off", "done", "remote_check", "remote_open", "remote_mkdir",
     "remote_fetch", "remote_stream", "local_load", "unpack", "unpack_write",
     "unpack_write_moved", "rename"}

TypeOK ==
    /\ inventory \subseteq Versions
    /\ cacheDir \in BOOLEAN
    /\ cache \in [CacheNames -> Contents]
    /\ staging \in [RootNames -> Trees]
    /\ final \in [ImageNames -> Trees]
    /\ fresh \subseteq CacheNames
    /\ pc \in [Procs -> PcValues]
    /\ op \in [Procs -> {"none", "public", "remote", "local", "fetch"}]
    /\ ver \in [Procs -> Versions \cup {0}]
    /\ ent \in [Procs -> 0..NEntries]
    /\ calls \in 0..MaxCalls

(***************************************************************************)
(* Termination.  A call, once started, is run by its thread: each of its   *)
(* steps is a call that returns (a blocking fetch or unpack finishes with  *)
(* success or with an error), so the next step of a running call is        *)
(* eventually taken.  Nothing is assumed of the caller: it need not start  *)
(* a call or take a result.  Calls run one after the other, on a machine   *)
(* whose cache directory holds whatever earlier runs left in it.           *)
(***************************************************************************)
Step(p) ==
    \/ RemoteCheck(p)
    \/ RemoteOpen(p)
    \/ RemoteMkdir(p)
    \/ RemoteFetch(p)
    \/ RemoteStream(p)
    \/ LocalLoad(p)
    \/ Unpack(p)
    \/ UnpackWrite(p)
    \/ UnpackFail(p)
    \/ Rename(p)

SpecFair == InitSeq /\ [][Next]_vars /\ \A p \in Procs : WF_vars(Step(p))

(***************************************************************************)
(* The install step.                                                       *)
(***************************************************************************)
Events(p) == {log[p][i][1] : i \in 1..Len(log[p])}

\* C1: when fetch is called on a distribution whose version the inventory
\* contains, the call ends in that step with Already(version) and writes
\* nothing: it has called no collaborator, and the cache, the staging subtrees
\* and the image directories are as they were.
C1_AlreadyInstalledWritesNothing ==
    [][\A p \in Procs :
          (/\ pc[p] = "idle"
           /\ pc'[p] # "idle"
           /\ op'[p] = "fetch"
           /\ distro[p].version \in inventory)
              => /\ pc'[p] = "done"
                 /\ result'[p] = Already(distro[p].version)
                 /\ log'[p] = <<>>
                 /\ UNCHANGED <<fsvars, inventory>>]_vars

C1_Witness ==
    \E p \in Procs :
        /\ pc[p] = "done"
        /\ op[p] = "fetch"
        /\ result[p] = Already(ver[p])
        /\ ver[p] \in inventory

\* C2: while a fetch call runs alone and after it has ended, the image
\* directory of its version is missing or holds the whole extracted tree,
\* never a part of it; it differs from what it was when the call began only
\* once the call has returned Now.
C2_FinalNeverPartial ==
    \A p \in Procs :
        op[p] = "fetch"
            => /\ final[image(p)] = Absent \/ IsFull(final[image(p)])
               /\ final[image(p)] # final0[p]
                      => /\ result[p] = Now(ver[p])
                         /\ IsFull(final[image(p)])

C2_Witness ==
    \E p \in Procs :
        /\ pc[p] = "unpack_write"
        /\ ent[p] = NEntries - 1
        /\ staging[root(p)] # Absent
        /\ ~IsFull(staging[root(p)])
        /\ final[image(p)] = Absent

ExtractionFailed(p) ==
    /\ pc[p] = "done"
    /\ op[p] = "fetch"
    /\ "unpack_err" \in Events(p)

\* C3 as stated: after a fetch call whose unpack failed, the call has
\* returned an error, has not executed the rename, and the image directory of
\* the version does not exist.
C3_FailedExtractionLeavesNoFinal ==
    \A p \in Procs :
        ExtractionFailed(p)
            => /\ result[p] = UnknownError
               /\ "rename" \notin Events(p)
               /\ final[image(p)] = Absent

\* C3 as amended: after a fetch call that ran alone and whose unpack failed,
\* the call has returned an error, has not executed the rename, and the image
\* directory of the version is as it was when the call began (missing if it
\* was missing).
C3_FailedExtractionLeavesFinalAsItWas ==
    \A p \in Procs :
        ExtractionFailed(p)
            => /\ result[p] = UnknownError
               /\ "rename" \notin Events(p)
               /\ final[image(p)] = final0[p]

C3_Witness ==
    \E p \in Procs :
        /\ ExtractionFailed(p)
        /\ ent[p] >= 1
        /\ ~IsFull(staging[root(p)])
        /\ final[image(p)] = Absent

ExtractionSucceeded(p) ==
    /\ op[p] = "fetch"
    /\ ent[p] = NEntries
    /\ "unpack_err" \notin Events(p)

\* C4 as stated: when a fetch call whose unpack succeeded has ended, the
\* image directory of the version exists and the staging subtree of the
\* version does not.
C4_ExtractedMeansPromoted ==
    \A p \in Procs :
        (pc[p] = "done" /\ ExtractionSucceeded(p))
            => /\ final[image(p)] # Absent
               /\ staging[root(p)] = Absent

\* C4 as amended: when a fetch call that ran alone has ended with Now (its
\* unpack and its rename succeeded), the image directory of the version holds
\* the extracted tree and the staging subtree of the version does not exist;
\* a call whose unpack succeeded and that did not return Now returned an error.
C4_InstalledMeansPromoted ==
    \A p \in Procs :
        (pc[p] = "done" /\ ExtractionSucceeded(p))
            => IF result[p] = Now(ver[p])
               THEN /\ IsFull(final[image(p)])
                    /\ staging[root(p)] = Absent
               ELSE result[p] = UnknownError

C4_Witness ==
    \E p \in Procs :
        /\ pc[p] = "done"
        /\ result[p] = Now(ver[p])
        /\ final0[p] = Absent
        /\ IsFull(final[image(p)])

(***************************************************************************)
(* Provisioning.                                                           *)
(***************************************************************************)
Remote(p) == op[p] \in {"public", "remote"}

Checked(p, e) == Remote(p) /\ Len(log[p]) >= 1 /\ log[p][1] = <<e>>

IsPrefix(s, t) == Len(s) <= Len(t) /\ \A i \in 1..Len(s) : s[i] = t[i]

\* What remote calls when the cache file is valid, and when it is not.
HitCalls(p) ==
    << <<"valid">>, <<"open", distro_file(p)>>,
       <<"load", FileOfCache(distro_file(p))>> >>

MissCalls(p) ==
    << <<"invalid">>, <<"mkdir">>, <<"fetch", arg[p], distro_file(p)>> >>

\* C5: a remote (or public) call whose validity check passed makes no call but
\* the reopening of the cache file and its load, in that order: no directory
\* is created, nothing is fetched, no file is written; the distribution it
\* returns is the one local builds from the cache file.
C5_ValidCacheNoFetch ==
    \A p \in Procs :
        Checked(p, "valid")
            => /\ IsPrefix(log[p], HitCalls(p))
               /\ result[p][1] \in {"none", "Ok", "UnknownError"}
               /\ result[p][1] = "Ok"
                      => /\ log[p] = HitCalls(p)
                         /\ result[p] = OkDistro(ver[p], "good")

C5_Witness ==
    \E p \in Procs :
        /\ pc[p] = "done"
        /\ Remote(p)
        /\ log[p] = HitCalls(p)
        /\ result[p] = OkDistro(ver[p], "good")

\* C6 as stated: a remote call that found the cache file invalid has, when
\* it ends, ensured the directory and then made exactly one fetch of its url
\* into the cache path, and no other call; a failed fetch ended the call.
C6_InvalidCacheOneFetch ==
    \A p \in Procs :
        (pc[p] = "done" /\ Checked(p, "invalid"))
            => \/ log[p] = MissCalls(p) /\ result[p][1] = "Ok"
               \/ /\ log[p] = Append(MissCalls(p), <<"fetch_err">>)
                  /\ result[p][1] = "DownloadError"

\* C6 as amended: a remote call that found the cache file invalid reports no
\* error for that; it ensures the directory and, if that succeeds, makes
\* exactly one fetch of its url into the cache path, which is not retried
\* when it fails; if the directory cannot be created the call ends with a
\* generic error and without a fetch.
C6_InvalidCacheAtMostOneFetch ==
    \A p \in Procs :
        (pc[p] = "done" /\ Checked(p, "invalid"))
            => \/ log[p] = MissCalls(p) /\ result[p][1] = "Ok"
               \/ /\ log[p] = Append(MissCalls(p), <<"fetch_err">>)
                  /\ result[p][1] = "DownloadError"
               \/ /\ log[p] = << <<"invalid">>, <<"mkdir">> >>
                  /\ result[p] = UnknownError
                  /\ ~cacheDir

C6_Witness ==
    \E p \in Procs :
        /\ pc[p] = "done"
        /\ Checked(p, "invalid")
        /\ log[p] = Append(MissCalls(p), <<"fetch_err">>)
        /\ cache[distro_file(p)] = "trunc"

FetchFailed(p) == {"fetch", "fetch_err"} \subseteq Events(p)

\* C7: a provisioning call (public, remote, local) ends with a DownloadError
\* exactly when it attempted a fetch and the fetch failed, and the error then
\* carries the string of the call's version; its other failures (resolving or
\* creating the cache directory, reopening the cache file, loading a file)
\* end it with the generic error.
C7_DownloadErrorIffFetchFailed ==
    \A p \in Procs :
        (pc[p] = "done" /\ op[p] \in {"public", "remote", "local"})
            => /\ result[p][1] \in {"Ok", "DownloadError", "UnknownError"}
               /\ result[p][1] = "DownloadError" <=> FetchFailed(p)
               /\ result[p][1] = "DownloadError"
                      => result[p] = DownloadError(to_string(ver[p]))
               /\ (result[p][1] # "Ok" /\ ~FetchFailed(p))
                      => result[p] = UnknownError

C7_Witness ==
    \E p \in Procs :
        /\ pc[p] = "done"
        /\ op[p] = "public"
        /\ result[p] = DownloadError(to_string(ver[p]))
        /\ cache[distro_file(p)] = "empty"

\* C8: distro_is_valid always returns a boolean and no error, and changes
\* nothing; it returns true exactly when the path is a regular file that
\* opens and whose bytes parse as an archive, and false for a missing path, a
\* directory, an unreadable file, a zero-byte file and a truncated archive.
C8_IsValidTotalAndExact ==
    [][\A p \in Procs :
          (pc[p] = "remote_check" /\ pc'[p] # "remote_check")
              => LET c == cache[distro_file(p)]
                     ret == Checked(p, "valid")'
                 IN  /\ Checked(p, "valid")' \/ Checked(p, "invalid")'
                     /\ result'[p] = NoResult
                     /\ ret <=> (is_file(c) /\ File_open(c) /\ Tarball_load(c))
                     /\ c \in {"absent", "dir", "locked", "empty", "trunc"} => ~ret
                     /\ c = "good" => ret
                     /\ UNCHANGED fsvars]_vars

C8_Witness ==
    \E p \in Procs :
        /\ pc[p] = "remote_mkdir"
        /\ Checked(p, "invalid")
        /\ cache[distro_file(p)] = "locked"

\* C9: every distribution a provisioning call has returned, and every one a
\* process holds, wraps an archive that parses.
C9_DistributionWrapsValidArchive ==
    \A p \in Procs :
        /\ result[p][1] = "Ok" => Tarball_load(result[p][2].archive)
        /\ distro[p] # NoDistro => Tarball_load(distro[p].archive)

\* A call got its distribution from the cache file while another call, which
\* had found the file invalid earlier, is writing that file anew.
C9_Witness ==
    \E p, q \in Procs :
        /\ p # q
        /\ pc[p] = "done"
        /\ log[p] = HitCalls(p)
        /\ result[p][1] = "Ok"
        /\ pc[q] = "remote_stream"
        /\ distro_file(q) = distro_file(p)
        /\ cache[distro_file(p)] = "empty"

\* C10: with calls running one at a time, a cache file written by a fetch
\* that succeeded is valid; a load of that file returns a distribution of the
\* version the caller names; and no remote call for that file goes on to a
\* fetch.
C10_RoundTripThroughCache ==
    /\ \A n \in fresh : distro_is_valid(cache[n])
    /\ \A p \in Procs :
        /\ (/\ pc[p] = "done"
            /\ "load" \in Events(p)
            /\ arg[p][1] = "cache"
            /\ arg[p][2] \in fresh)
               => result[p] = OkDistro(ver[p], "good")
        /\ (Remote(p) /\ distro_file(p) \in fresh)
               => /\ pc[p] \notin {"remote_mkdir", "remote_fetch", "remote_stream"}
                  /\ "fetch_err" \notin Events(p)

C10_Witness ==
    \E p \in Procs :
        /\ pc[p] = "done"
        /\ op[p] = "local"
        /\ arg[p][1] = "cache"
        /\ arg[p][2] \in fresh
        /\ result[p] = OkDistro(ver[p], "good")

(***************************************************************************)
(* The inventory.                                                          *)
(***************************************************************************)
\* C11: no step of a provisioning or a fetch call changes the inventory,
\* whether the call ends with Already, with Now or with an error: the only
\* step that changes it is the caller's, which adds the version of a fetch
\* call that has returned Now.
C11_InventoryChangedByCallerOnly ==
    [][inventory' # inventory
          => \E p \in Procs :
                 /\ pc[p] = "done"
                 /\ pc'[p] = "idle"
                 /\ op[p] = "fetch"
                 /\ result[p] = Now(ver[p])
                 /\ inventory' = inventory \cup {ver[p]}]_vars

C11_Witness ==
    \E p \in Procs :
        /\ pc[p] = "done"
        /\ op[p] = "fetch"
        /\ result[p] = Now(ver[p])
        /\ ver[p] \notin inventory
        /\ inventory # {}

(***************************************************************************)
(* Installing a version at most once.                                      *)
(***************************************************************************)
\* What a fetch call that installs makes of calls: every entry is unpacked
\* under the staging root, in order, then the subtree is renamed.
InstallCalls(p) ==
    [i \in 1..(NEntries + 1) |->
        IF i <= NEntries THEN <<"unpack", root(p), i>>
        ELSE <<"rename", root(p), image(p)>>]

\* C12: with calls that run one after the other and no failing collaborator:
\* a public call that finds no valid cache file and succeeds has made one
\* fetch, of the public url of its version into the cache path of its
\* version, and returns a distribution of that version; a fetch call that
\* returns Now has unpacked every entry once and renamed once, and the image
\* directory holds the whole tree; a fetch call for a version the inventory
\* contains returns Already and has touched nothing; and no version is
\* renamed into its image directory more than once.
C12_InstalledAtMostOnce ==
    /\ \A p \in Procs :
          /\ (pc[p] = "done" /\ op[p] = "public" /\ Checked(p, "invalid")
                  /\ result[p][1] = "Ok")
                 => /\ log[p] = << <<"invalid">>, <<"mkdir">>,
                                   <<"fetch", PublicUrl(ver[p]),
                                     yarn_distro_file_name(to_string(ver[p]))>> >>
                    /\ result[p] = OkDistro(ver[p], "good")
                    /\ cache[yarn_distro_file_name(to_string(ver[p]))] = "good"
          /\ (pc[p] = "done" /\ result[p][1] = "Now")
                 => /\ result[p] = Now(ver[p])
                    /\ log[p] = InstallCalls(p)
                    /\ IsFull(final[image(p)])
                    /\ promoted[ver[p]] = 1
          /\ (op[p] = "fetch" /\ ver[p] \in inventory)
                 => /\ pc[p] = "done"
                    /\ result[p] = Already(ver[p])
                    /\ log[p] = <<>>
                    /\ ent[p] = 0
                    /\ bar[p] = NoBar
                    /\ final[image(p)] = final0[p]
    /\ \A v \in Versions : promoted[v] <= 1

C12_Witness ==
    \E p \in Procs :
        /\ pc[p] = "done"
        /\ op[p] = "fetch"
        /\ result[p] = Already(ver[p])
        /\ promoted[ver[p]] = 1
        /\ distro_file(p) \in fresh
        /\ IsFull(final[image(p)])

(***************************************************************************)
(* Failures of the install step.                                           *)
(***************************************************************************)
InstallSteps == {"unpack", "unpack_write", "unpack_write_moved", "rename"}

\* The calls of a fetch call that repeats none: the unpack of the entries in
\* order, each once, ended by the failure of unpack or followed by at most
\* one rename.
NothingRepeated(l, p) ==
    \/ IsPrefix(l, InstallCalls(p))
    \/ \E k \in 0..NEntries :
           l = Append(SubSeq(InstallCalls(p), 1, k), <<"unpack_err">>)

\* C13: the step in which unpack or the rename fails ends the fetch call with
\* an error; the call has then made no call twice (nothing is retried), and
\* the step removes and changes nothing: the staging subtrees, the image
\* directories and the cache are as the failed call left them.
C13_FailureLeavesStagingAsItIs ==
    [][\A p \in Procs :
          (/\ op[p] = "fetch"
           /\ pc[p] \in InstallSteps
           /\ pc'[p] = "done"
           /\ result'[p] # Now(ver[p]))
              => /\ result'[p] = UnknownError
                 /\ NothingRepeated(log'[p], p)
                 /\ UNCHANGED fsvars]_vars

C13_Witness ==
    \E p, q \in Procs :
        /\ pc[p] = "done" /\ op[p] = "fetch" /\ result[p] = UnknownError
        /\ "unpack_err" \in Events(p)
        /\ staging[root(p)] # Absent
        /\ \E e \in Entries : staging[root(p)][e] = "part"
        /\ pc[q] = "done" /\ op[q] = "fetch" /\ result[q] = UnknownError
        /\ "rename" \in Events(q)
        /\ IsFull(staging[root(q)])

Phase(p) ==
    IF pc[p] = "idle" THEN "NotChecked"
    ELSE IF pc[p] \in {"unpack", "unpack_write", "unpack_write_moved"} THEN "Extracting"
    ELSE IF pc[p] = "rename" THEN "Promoting"
    ELSE IF pc[p] = "done" /\ result[p][1] = "Already" THEN "AlreadyInstalled"
    ELSE IF pc[p] = "done" /\ result[p][1] = "Now" THEN "Installed"
    ELSE "Failed"

StatedTransitions ==
    { <<"NotChecked", "AlreadyInstalled">>, <<"NotChecked", "Extracting">>,
      <<"Extracting", "Promoting">>, <<"Extracting", "Failed">>,
      <<"Promoting", "Installed">>, <<"Promoting", "Failed">> }

\* A fetch call of p goes from one state to another by a transition of T, and
\* once it has ended its state stays until the caller takes the result.
FollowsOnly(T) ==
    \A p \in Procs :
        /\ (op'[p] = "fetch" /\ pc[p] # "done" /\ Phase(p)' # Phase(p))
               => <<Phase(p), Phase(p)'>> \in T
        /\ (op[p] = "fetch" /\ pc[p] = "done" /\ pc'[p] # "idle")
               => Phase(p)' = Phase(p) /\ result'[p] = result[p]

\* C15 as stated: a fetch call follows only the transitions NotChecked ->
\* AlreadyInstalled, NotChecked -> Extracting, Extracting -> Promoting,
\* Extracting -> Failed, Promoting -> Installed and Promoting -> Failed, and
\* AlreadyInstalled, Installed and Failed have no transition out of them.
C15_OnlyStatedTransitions == [][FollowsOnly(StatedTransitions)]_vars

\* C15 as amended: a fetch call follows only the stated transitions and
\* NotChecked -> Failed, taken when the gate has passed and the staging root
\* cannot be resolved, before anything is extracted; AlreadyInstalled,
\* Installed and Failed have no transition out of them.
C15_OnlyTransitionsOfFetch ==
    [][FollowsOnly(StatedTransitions \cup {<<"NotChecked", "Failed">>})]_vars

C15_Witness ==
    \E p \in Procs :
        /\ pc[p] = "done"
        /\ op[p] = "fetch"
        /\ ver[p] \notin inventory
        /\ result[p] = UnknownError
        /\ log[p] = <<>>
        /\ ent[p] = 0
        /\ bar[p] = NoBar

(***************************************************************************)
(* Every call ends.                                                        *)
(***************************************************************************)
Running(p) == pc[p] \notin {"idle", "done", "off"}

\* C16: when every step of a running call is eventually taken, every call
\* that has started (public, remote, local or fetch) eventually ends with a
\* result: a distribution or an error; Already, Now or an error.
C16_EveryCallEnds ==
    \A p \in Procs :
        Running(p) ~> (pc[p] = "done" /\ result[p] # NoResult)

C16_Witness ==
    \E p \in Procs :
        /\ pc[p] = "done"
        /\ op[p] = "fetch"
        /\ result[p] = UnknownError
        /\ log[p] = InstallCalls(p)
        /\ distro_file(p) \in fresh

(***************************************************************************)
(* What provisioning changes.                                              *)
(***************************************************************************)
\* C17: a step of a public, remote or local call changes no staging subtree,
\* no image directory, not the inventory, and no cache file but the one of
\* the version of the call; it removes no directory; a step of a local call
\* changes nothing of the filesystem at all.
C17_ProvisioningTouchesOnlyItsCacheFile ==
    [][\A p \in Procs :
          (/\ op'[p] \in {"public", "remote", "local"}
           /\ pc[p] # "done"
           /\ pc'[p] # pc[p])
              => /\ UNCHANGED <<staging, final, inventory>>
                 /\ \A n \in CacheNames :
                        n # yarn_distro_file_name(to_string(ver'[p]))
                            => cache'[n] = cache[n]
                 /\ cacheDir => cacheDir'
                 /\ op'[p] = "local" => UNCHANGED fsvars]_vars

C17_Witness ==
    \E p \in Procs :
        /\ pc[p] = "done"
        /\ Remote(p)
        /\ "fetch" \in Events(p)
        /\ result[p] = OkDistro(ver[p], "good")
        /\ \E n \in CacheNames : n # distro_file(p) /\ cache[n] = "good"
        /\ \E i \in ImageNames : IsFull(final[i])

(***************************************************************************)
(* Two installers of one version.                                          *)
(***************************************************************************)
Partial(t) == t # Absent /\ ~IsFull(t)

\* C18: nothing separates two fetch calls of one version that have both
\* passed the gate: while one of them is extracting or renaming, the other
\* can write its next entry, and it writes it into the same staging subtree,
\* which the same rename moves to the same image directory.  (The witness is
\* the hazard this allows: a call has returned Now and the image directory
\* holds a partly written tree, an entry of which the other call is still
\* writing.)
C18_InstallersShareStagingSubtree ==
    \A p, q \in Procs :
        (/\ p # q
         /\ op[p] = "fetch" /\ op[q] = "fetch"
         /\ ver[p] = ver[q]
         /\ pc[p] = "unpack"
         /\ pc[q] \in InstallSteps)
            => /\ ENABLED Unpack(p)
               /\ root(p) = root(q)
               /\ image(p) = image(q)
               /\ \A i \in 1..Len(log[q]) : log[q][i][2] = root(p)

C18_Witness ==
    \E p, q \in Procs :
        /\ p # q
        /\ pc[p] = "done" /\ op[p] = "fetch" /\ result[p] = Now(ver[p])
        /\ "unpack_err" \notin Events(p)
        /\ op[q] = "fetch" /\ ver[q] = ver[p]
        /\ pc[q] = "unpack_write_moved"
        /\ Partial(final[image(p)])
        /\ final[image(p)][ent[q] + 1] = "part"

C20_NoFallbackAfterValidCheck ==
    \A p \in Procs :
        (pc[p] = "done" /\ Checked(p, "valid") /\ result[p][1] # "Ok")
            => /\ result[p] = UnknownError
               /\ \/ log[p] = HitCalls(p)
                  \/ log[p] = SubSeq(HitCalls(p), 1, 2)
               /\ Events(p) \cap {"mkdir", "fetch", "fetch_err"} = {}

C20_Witness ==
    \E p \in Procs :
        /\ pc[p] = "done"
        /\ Checked(p, "valid")
        /\ log[p] = HitCalls(p)
        /\ result[p] = UnknownError
        /\ cache[distro_file(p)] \in {"empty", "trunc"}

====
